---- MODULE Spec2Model ----
(***************************************************************************)
(* Configuration resolution of code-decoder: config.LoadConfig and         *)
(* Config.Validate (internal/config/config.go), and the command-line       *)
(* start-up path main -> cmd.Execute -> initConfig -> subcommand handler   *)
(* (cmd/code-decoder).  The viper and cobra library calls the code makes   *)
(* are modelled by what they do to the values the code reads back.         *)
(***************************************************************************)
EXTENDS Integers, Sequences, FiniteSets, TLC

VARIABLES
    pc,        \* position of the running program (a test function, or a CLI step)
    fs,        \* file system: location -> file state
    homeOK,    \* whether os.UserHomeDir() succeeds
    env,       \* process environment: variable name -> value (domain = set variables)
    args,      \* os.Args of the CLI process, parsed into a record
    ret,       \* result of the last config.LoadConfig call
    vcfg,      \* the Config literal a test hands to Validate
    verr,      \* result of the last direct Config.Validate call
    cfg,       \* package variable cmd.cfg (*config.Config)
    gviper,    \* the global viper instance used by initConfig
    inst,      \* the viper instance the last LoadConfig call worked on
    prev,      \* the LoadConfig call before the last one, with its environment
    ran,       \* the subcommand handler that has run ("" when none)
    exitCode,  \* process exit status (-1 while running)
    stderr     \* lines written to standard error, by kind

vars == <<pc, fs, homeOK, env, args, ret, vcfg, verr, cfg, gviper, inst, prev, ran, exitCode, stderr>>

-----------------------------------------------------------------------------
(* Bounds *)

\* at most this many environment variables are set in one environment
MaxEnvSet == 1

-----------------------------------------------------------------------------
(* Go values *)

Nil == [nil |-> TRUE]

NoError == Nil

\* type Config struct and its three sub-records
Config(provider, apiKey, model, endpoint, outputDir, language, audience, include, exclude, maxSize, token) ==
    [LLM      |-> [Provider |-> provider, APIKey |-> apiKey,
                   Model |-> model, Endpoint |-> endpoint],
     Defaults |-> [OutputDir |-> outputDir, Language |-> language,
                   Audience |-> audience, Include |-> include,
                   Exclude |-> exclude, MaxSize |-> maxSize],
     GitHub   |-> [Token |-> token]]

\* var cfg Config: the zero value
ZeroConfig == Config("", "", "", "", "", "", "", <<>>, <<>>, 0, "")

\* the mapstructure tags: every leaf key path of the typed schema
LeafKeys ==
    { <<"llm", "provider">>, <<"llm", "api_key">>, <<"llm", "model">>,
      <<"llm", "endpoint">>,
      <<"defaults", "output_dir">>, <<"defaults", "language">>,
      <<"defaults", "audience">>, <<"defaults", "include">>,
      <<"defaults", "exclude">>, <<"defaults", "max_size">>,
      <<"github", "token">> }

SliceKeys == { <<"defaults", "include">>, <<"defaults", "exclude">> }
IntKeys   == { <<"defaults", "max_size">> }

\* the struct field a leaf key is unmarshalled into
FieldOf(c, k) ==
    CASE k = <<"llm", "provider">>        -> c.LLM.Provider
      [] k = <<"llm", "api_key">>         -> c.LLM.APIKey
      [] k = <<"llm", "model">>           -> c.LLM.Model
      [] k = <<"llm", "endpoint">>        -> c.LLM.Endpoint
      [] k = <<"defaults", "output_dir">> -> c.Defaults.OutputDir
      [] k = <<"defaults", "language">>   -> c.Defaults.Language
      [] k = <<"defaults", "audience">>   -> c.Defaults.Audience
      [] k = <<"defaults", "include">>    -> c.Defaults.Include
      [] k = <<"defaults", "exclude">>    -> c.Defaults.Exclude
      [] k = <<"defaults", "max_size">>   -> c.Defaults.MaxSize
      [] k = <<"github", "token">>        -> c.GitHub.Token

\* the zero value of the field of a leaf key
ZeroOf(k) == FieldOf(ZeroConfig, k)

-----------------------------------------------------------------------------
(* Environment *)

\* strings.ToUpper on the path segments of the schema
ToUpper(s) ==
    CASE s = "llm"        -> "LLM"
      [] s = "defaults"   -> "DEFAULTS"
      [] s = "github"     -> "GITHUB"
      [] s = "provider"   -> "PROVIDER"
      [] s = "api_key"    -> "API_KEY"
      [] s = "model"      -> "MODEL"
      [] s = "endpoint"   -> "ENDPOINT"
      [] s = "output_dir" -> "OUTPUT_DIR"
      [] s = "language"   -> "LANGUAGE"
      [] s = "audience"   -> "AUDIENCE"
      [] s = "include"    -> "INCLUDE"
      [] s = "exclude"    -> "EXCLUDE"
      [] s = "max_size"   -> "MAX_SIZE"
      [] s = "token"      -> "TOKEN"
      [] OTHER            -> s

\* v.SetEnvPrefix("CODEDECODER")
EnvPrefix == "CODEDECODER"

\* faulty variant: the fallback check reading the variable of the api_key leaf
envVarNameOfLeaf == "CODEDECODER_LLM_API_KEY"

\* the fallback variable Validate reads with os.Getenv
envVarName == "CODEDECODER_LLM_APIKEY"

\* faulty variant: the key replacer left out, the "." of the path kept
EnvKeyDotted(prefix, replaced, k) ==
    LET path == ToUpper(k[1]) \o "." \o ToUpper(k[2])
    IN  IF prefix = "" THEN path ELSE prefix \o "_" \o path

\* viper's environment key of a leaf key: the key path joined with ".",
\* passed through the key replacer ("." -> "_" when one is set), prefixed
\* with the env prefix and "_" when a prefix is set, and upper-cased
EnvKey(prefix, replaced, k) ==
    LET sep  == IF replaced THEN "_" ELSE "."
        path == ToUpper(k[1]) \o sep \o ToUpper(k[2])
    IN  IF prefix = "" THEN path ELSE prefix \o "_" \o path

\* os.Getenv: "" when the variable is unset
Getenv(e, name) == IF name \in DOMAIN e THEN e[name] ELSE ""

\* faulty variant: getEnv as with AllowEmptyEnv(true): an empty value counts as set
ViperGetEnvAllowEmpty(e, name) ==
    [ok |-> name \in DOMAIN e, val |-> Getenv(e, name)]

\* viper's getEnv with AllowEmptyEnv off: os.LookupEnv, and an empty value
\* counts as not set
ViperGetEnv(e, name) ==
    [ok |-> name \in DOMAIN e /\ e[name] # "", val |-> Getenv(e, name)]

-----------------------------------------------------------------------------
(* File system *)

\* the two default locations and one other path a caller may name
CwdFile   == "./config.yaml"
HomeFile  == "~/.config/code-decoder/config.yaml"
OtherFile == "custom.yaml"

Locations == {CwdFile, HomeFile, OtherFile}

Absent     == [kind |-> "absent"]
Unreadable == [kind |-> "unreadable"]
Malformed  == [kind |-> "malformed"]
File(t)    == [kind |-> "file", tree |-> t]

\* the file TestLoadConfig writes
TestConfigContent ==
    ( <<"llm", "provider">>        :> "openai" @@
      <<"llm", "api_key">>         :> "test-key-from-file" @@
      <<"llm", "model">>           :> "gpt-4" @@
      <<"defaults", "audience">>   :> "developer" @@
      <<"defaults", "language">>   :> "English" @@
      <<"defaults", "output_dir">> :> "./tutorials" )

\* a local provider whose endpoint is given but empty
OllamaContent ==
    ( <<"llm", "provider">>      :> "ollama" @@
      <<"llm", "endpoint">>      :> "" @@
      <<"llm", "model">>         :> "llama3" @@
      <<"defaults", "include">>  :> <<"*.go">> @@
      <<"defaults", "max_size">> :> (0 - 1) )

\* a cloud provider with no api_key entry
AnthropicContent ==
    ( <<"llm", "provider">>      :> "anthropic" @@
      <<"defaults", "audience">> :> "beginner" @@
      <<"defaults", "max_size">> :> 1000000 @@
      <<"github", "token">>      :> "token-from-file" )

FileTrees == {TestConfigContent, OllamaContent, AnthropicContent}

FileStates == {Absent, Unreadable, Malformed} \cup {File(t) : t \in FileTrees}

\* viper's exists(): a successful Stat of a regular file
Exists(f, loc) == f[loc].kind # "absent"

-----------------------------------------------------------------------------
(* viper *)

\* viper.New(), then the settings LoadConfig and initConfig make
NewViper == [configFile |-> "", configPaths |-> <<>>, envPrefix |-> "",
             replaced |-> FALSE, automaticEnv |-> FALSE, config |-> <<>>]

\* faulty variant: the instance of the call before used again
ViperNewShared(last) == last

\* v := viper.New(): an instance of its own, whatever instance an earlier
\* call left behind
ViperNew(last) == NewViper

\* findConfigFile: the first config path, in the order added, that holds
\* the file; "" when none does
RECURSIVE FindConfigFile(_, _)
FindConfigFile(f, paths) ==
    IF paths = <<>> THEN ""
    ELSE IF Exists(f, Head(paths)) THEN Head(paths)
    ELSE FindConfigFile(f, Tail(paths))

\* the error kinds of ReadInConfig an explicitly set, missing file can give
\* (the read error of the file system, or viper's own not-found error)
MissingKinds == {"PathError", "ConfigFileNotFoundError"}

\* faulty variant: ReadInConfig passing over a file it cannot read or parse
ReadInConfigLenient(v, f, missing) ==
    LET file == IF v.configFile # "" THEN v.configFile
                ELSE FindConfigFile(f, v.configPaths)
    IN  IF file = "" \/ f[file].kind # "file"
        THEN [v |-> v, err |-> [kind |-> "ConfigFileNotFoundError"]]
        ELSE [v |-> [v EXCEPT !.configFile = file, !.config = f[file].tree],
              err |-> NoError]

\* faulty variant: ReadInConfig laying the file found over the file of
\* another config path
ReadInConfigMerging(v, f, missing) ==
    LET file == IF v.configFile # "" THEN v.configFile
                ELSE FindConfigFile(f, v.configPaths)
        rest == { l \in { v.configPaths[i] : i \in DOMAIN v.configPaths } \ {file} :
                    f[l].kind = "file" }
        under == IF rest = {} THEN <<>> ELSE f[CHOOSE l \in rest : TRUE].tree
    IN  IF file = ""
        THEN [v |-> v, err |-> [kind |-> "ConfigFileNotFoundError"]]
        ELSE LET w == [v EXCEPT !.configFile = file]
             IN  CASE f[file].kind = "absent" ->
                        [v |-> w, err |-> [kind |-> missing]]
                   [] f[file].kind = "unreadable" ->
                        [v |-> w, err |-> [kind |-> "PathError"]]
                   [] f[file].kind = "malformed" ->
                        [v |-> w, err |-> [kind |-> "ConfigParseError"]]
                   [] OTHER ->
                        [v |-> [w EXCEPT !.config = f[file].tree @@ under],
                         err |-> NoError]

\* v.ReadInConfig(): the viper afterwards and the error.  missing is the
\* kind of error an explicitly set file that does not exist produces.
ReadInConfig(v, f, missing) ==
    LET file == IF v.configFile # "" THEN v.configFile
                ELSE FindConfigFile(f, v.configPaths)
    IN  IF file = ""
        THEN [v |-> v, err |-> [kind |-> "ConfigFileNotFoundError"]]
        ELSE LET w == [v EXCEPT !.configFile = file]
             IN  CASE f[file].kind = "absent" ->
                        [v |-> w, err |-> [kind |-> missing]]
                   [] f[file].kind = "unreadable" ->
                        [v |-> w, err |-> [kind |-> "PathError"]]
                   [] f[file].kind = "malformed" ->
                        [v |-> w, err |-> [kind |-> "ConfigParseError"]]
                   [] OTHER ->
                        [v |-> [w EXCEPT !.config = f[file].tree],
                         err |-> NoError]

\* v.ConfigFileUsed()
ConfigFileUsed(v) == v.configFile

\* faulty variant: Get with the config file ahead of the environment
GetFileFirst(v, e, k) ==
    LET ev == ViperGetEnv(e, EnvKey(v.envPrefix, v.replaced, k))
    IN  IF k \in DOMAIN v.config
        THEN [src |-> "file", val |-> v.config[k]]
        ELSE IF v.automaticEnv /\ ev.ok THEN [src |-> "env", val |-> ev.val]
        ELSE Nil

\* v.Get(key): the environment first when AutomaticEnv is on, then the
\* config file; Nil when neither has the key
Get(v, e, k) ==
    LET ev == ViperGetEnv(e, EnvKey(v.envPrefix, v.replaced, k))
    IN  IF v.automaticEnv /\ ev.ok THEN [src |-> "env", val |-> ev.val]
        ELSE IF k \in DOMAIN v.config
             THEN [src |-> "file", val |-> v.config[k]]
             ELSE Nil

\* v.AllKeys(): the keys of the config file (no defaults, bound variables
\* or flags are registered; AutomaticEnv adds no keys)
AllKeys(v) == DOMAIN v.config

\* v.AllSettings(): the value of every key of AllKeys
AllSettings(v, e) == [k \in AllKeys(v) |-> Get(v, e, k)]

\* strconv.ParseInt as the weak decoder applies it to a string
ParseInt(s) ==
    CASE s = "7"  -> [ok |-> TRUE, n |-> 7]
      [] s = "-3" -> [ok |-> TRUE, n |-> 0 - 3]
      [] OTHER    -> [ok |-> FALSE, n |-> 0]

\* StringToSliceHookFunc(","): strings.Split(s, ",")
StringToSlice(s) ==
    CASE s = ""          -> <<>>
      [] s = "*.go,*.md" -> <<"*.go", "*.md">>
      [] OTHER           -> <<s>>

\* decoding one setting into the field of its key
Decodes(k, x) == ~(x.src = "env" /\ k \in IntKeys /\ ~ParseInt(x.val).ok)

Decode(k, x) ==
    IF x.src = "file" THEN x.val
    ELSE IF k \in IntKeys THEN ParseInt(x.val).n
    ELSE IF k \in SliceKeys THEN StringToSlice(x.val)
    ELSE x.val

\* faulty variant: the APIKey tag misspelt, so api_key fills no field
UnmarshalTagTypo(v, e) ==
    LET s == AllSettings(v, e)
        F(k) == IF k \in DOMAIN s /\ s[k] # Nil THEN Decode(k, s[k]) ELSE ZeroOf(k)
    IN  IF \E k \in DOMAIN s : s[k] # Nil /\ ~Decodes(k, s[k])
        THEN [cfg |-> ZeroConfig, err |-> [kind |-> "DecodeError"]]
        ELSE [cfg |-> Config(F(<<"llm", "provider">>), "",
                             F(<<"llm", "model">>), F(<<"llm", "endpoint">>),
                             F(<<"defaults", "output_dir">>),
                             F(<<"defaults", "language">>),
                             F(<<"defaults", "audience">>),
                             F(<<"defaults", "include">>),
                             F(<<"defaults", "exclude">>),
                             F(<<"defaults", "max_size">>),
                             F(<<"github", "token">>)),
              err |-> NoError]

\* v.Unmarshal(&cfg): the settings decoded field by field over the zero Config
Unmarshal(v, e) ==
    LET s == AllSettings(v, e)
        F(k) == IF k \in DOMAIN s /\ s[k] # Nil THEN Decode(k, s[k]) ELSE ZeroOf(k)
    IN  IF \E k \in DOMAIN s : s[k] # Nil /\ ~Decodes(k, s[k])
        THEN [cfg |-> ZeroConfig, err |-> [kind |-> "DecodeError"]]
        ELSE [cfg |-> Config(F(<<"llm", "provider">>), F(<<"llm", "api_key">>),
                             F(<<"llm", "model">>), F(<<"llm", "endpoint">>),
                             F(<<"defaults", "output_dir">>),
                             F(<<"defaults", "language">>),
                             F(<<"defaults", "audience">>),
                             F(<<"defaults", "include">>),
                             F(<<"defaults", "exclude">>),
                             F(<<"defaults", "max_size">>),
                             F(<<"github", "token">>)),
              err |-> NoError]

-----------------------------------------------------------------------------
(* internal/config *)

isCloudProvider(c) == c.LLM.Provider = "openai" \/ c.LLM.Provider = "anthropic"

\* faulty variant: lmstudio left out of the local providers
isLocalProviderOllamaOnly(c) == c.LLM.Provider = "ollama"

isLocalProvider(c) == c.LLM.Provider = "ollama" \/ c.LLM.Provider = "lmstudio"

\* faulty variant: contributor left out of the audiences
validAudiencesWithoutContributor == {"beginner", "developer"}

validAudiences == {"beginner", "developer", "contributor"}

\* faulty variant: CODEDECODER_LLM_ENDPOINT stands in for a missing endpoint
ValidateEndpointFallback(c, e) ==
    IF isCloudProvider(c) /\ c.LLM.APIKey = "" /\ Getenv(e, envVarName) = ""
    THEN [kind |-> "llm.api_key is required", provider |-> c.LLM.Provider,
          variable |-> envVarName]
    ELSE IF isLocalProvider(c) /\ c.LLM.Endpoint = ""
            /\ Getenv(e, "CODEDECODER_LLM_ENDPOINT") = ""
    THEN [kind |-> "llm.endpoint is required", provider |-> c.LLM.Provider]
    ELSE IF c.Defaults.Audience # "" /\ c.Defaults.Audience \notin validAudiences
    THEN [kind |-> "invalid default audience", audience |-> c.Defaults.Audience,
          allowed |-> validAudiences]
    ELSE NoError

\* faulty variant: the commented-out "llm.provider is required" rule in force
ValidateProviderRequired(c, e) ==
    IF c.LLM.Provider = ""
    THEN [kind |-> "llm.provider is required"]
    ELSE IF isCloudProvider(c) /\ c.LLM.APIKey = "" /\ Getenv(e, envVarName) = ""
    THEN [kind |-> "llm.api_key is required", provider |-> c.LLM.Provider,
          variable |-> envVarName]
    ELSE IF isLocalProvider(c) /\ c.LLM.Endpoint = ""
    THEN [kind |-> "llm.endpoint is required", provider |-> c.LLM.Provider]
    ELSE IF c.Defaults.Audience # "" /\ c.Defaults.Audience \notin validAudiences
    THEN [kind |-> "invalid default audience", audience |-> c.Defaults.Audience,
          allowed |-> validAudiences]
    ELSE NoError

\* faulty variant: the audience rule ahead of the provider rules
ValidateAudienceFirst(c, e) ==
    IF c.Defaults.Audience # "" /\ c.Defaults.Audience \notin validAudiences
    THEN [kind |-> "invalid default audience", audience |-> c.Defaults.Audience,
          allowed |-> validAudiences]
    ELSE IF isCloudProvider(c) /\ c.LLM.APIKey = "" /\ Getenv(e, envVarName) = ""
    THEN [kind |-> "llm.api_key is required", provider |-> c.LLM.Provider,
          variable |-> envVarName]
    ELSE IF isLocalProvider(c) /\ c.LLM.Endpoint = ""
    THEN [kind |-> "llm.endpoint is required", provider |-> c.LLM.Provider]
    ELSE NoError

\* faulty variant: the fallback read from a variable named after the provider
ValidateProviderVariable(c, e) ==
    LET name == IF c.LLM.Provider = "openai" THEN "CODEDECODER_OPENAI_API_KEY"
                ELSE "CODEDECODER_ANTHROPIC_API_KEY"
    IN  IF isCloudProvider(c) /\ c.LLM.APIKey = "" /\ Getenv(e, name) = ""
        THEN [kind |-> "llm.api_key is required", provider |-> c.LLM.Provider,
              variable |-> name]
        ELSE IF isLocalProvider(c) /\ c.LLM.Endpoint = ""
        THEN [kind |-> "llm.endpoint is required", provider |-> c.LLM.Provider]
        ELSE IF c.Defaults.Audience # "" /\ c.Defaults.Audience \notin validAudiences
        THEN [kind |-> "invalid default audience", audience |-> c.Defaults.Audience,
              allowed |-> validAudiences]
        ELSE NoError

\* faulty variant: no rule is checked
ValidateNothing(c, e) == NoError

\* func (c *Config) Validate() error
Validate(c, e) ==
    IF isCloudProvider(c) /\ c.LLM.APIKey = "" /\ Getenv(e, envVarName) = ""
    THEN [kind |-> "llm.api_key is required", provider |-> c.LLM.Provider,
          variable |-> envVarName]
    ELSE IF isLocalProvider(c) /\ c.LLM.Endpoint = ""
    THEN [kind |-> "llm.endpoint is required", provider |-> c.LLM.Provider]
    ELSE IF c.Defaults.Audience # "" /\ c.Defaults.Audience \notin validAudiences
    THEN [kind |-> "invalid default audience", audience |-> c.Defaults.Audience,
          allowed |-> validAudiences]
    ELSE NoError

\* faulty variant: Validate storing the fallback variable's value in APIKey
ValidateStoresFallback(c, e) ==
    IF isCloudProvider(c) /\ c.LLM.APIKey = "" /\ Getenv(e, envVarName) # ""
    THEN [c EXCEPT !.LLM.APIKey = Getenv(e, envVarName)]
    ELSE c

\* the Config behind the receiver c after Validate: no statement of
\* Validate assigns through c
ValidateReceiver(c, e) == c

\* faulty variant: a missing file fatal on the default branch too
NotFoundFatalAlways(cfgFile) == TRUE

\* the check of cfgFile inside the ConfigFileNotFoundError branch
NotFoundFatal(cfgFile) == cfgFile # ""

\* faulty variant: the home directory looked up ahead of the cfgFile branch
HomeLookupFailsAlways(cfgFile, home) == ~home

\* os.UserHomeDir() is called, and fails, on the branch without cfgFile only
HomeLookupFails(cfgFile, home) == cfgFile = "" /\ ~home

\* faulty variant: LoadConfig searching the default locations whatever cfgFile is
LoadViperIgnoringFlag(v, cfgFile) ==
    [v EXCEPT !.configPaths = v.configPaths \o <<HomeFile, CwdFile>>,
                     !.envPrefix = EnvPrefix, !.replaced = TRUE,
                     !.automaticEnv = TRUE]

\* step 2 and 3 of LoadConfig: the viper instance before the file is read
LoadViper(v, cfgFile) ==
    LET file  == IF cfgFile # "" THEN cfgFile ELSE v.configFile
        paths == IF cfgFile # "" THEN v.configPaths
                 ELSE v.configPaths \o <<HomeFile, CwdFile>>
    IN  [v EXCEPT !.configFile = file, !.configPaths = paths,
                  !.envPrefix = EnvPrefix, !.replaced = TRUE,
                  !.automaticEnv = TRUE]

\* faulty variant: LoadConfig handing back the Config it decoded beside the
\* error of Unmarshal or Validate
LoadConfigKeepsConfig(v, cfgFile, f, home, e, missing) ==
    IF HomeLookupFails(cfgFile, home)
    THEN [cfg |-> Nil, stdout |-> "", v |-> v,
          err |-> [kind |-> "failed to get user home directory"]]
    ELSE
    LET r == ReadInConfig(LoadViper(v, cfgFile), f, missing)
        notFound == r.err # NoError /\ r.err.kind = "ConfigFileNotFoundError"
        out == IF r.err = NoError THEN ConfigFileUsed(r.v) ELSE "Config file not found"
        u == Unmarshal(r.v, e)
        ve == Validate(u.cfg, e)
    IN  IF notFound /\ NotFoundFatal(cfgFile)
        THEN [cfg |-> Nil, stdout |-> "", v |-> r.v,
              err |-> [kind |-> "config file specified but not found"]]
        ELSE IF r.err # NoError /\ ~notFound
        THEN [cfg |-> Nil, stdout |-> "", v |-> r.v,
              err |-> [kind |-> "failed to read config file", cause |-> r.err]]
        ELSE IF u.err # NoError
        THEN [cfg |-> u.cfg, stdout |-> out, v |-> r.v,
              err |-> [kind |-> "failed to unmarshal config", cause |-> u.err]]
        ELSE IF ve # NoError
        THEN [cfg |-> u.cfg, stdout |-> out, v |-> r.v,
              err |-> [kind |-> "invalid configuration", cause |-> ve]]
        ELSE [cfg |-> ValidateReceiver(u.cfg, e), stdout |-> out, v |-> r.v,
              err |-> NoError]

\* func LoadConfig(cfgFile string) (*Config, error), with what it prints
LoadConfig(v, cfgFile, f, home, e, missing) ==
    IF HomeLookupFails(cfgFile, home)
    THEN [cfg |-> Nil, stdout |-> "", v |-> v,
          err |-> [kind |-> "failed to get user home directory"]]
    ELSE
    LET r == ReadInConfig(LoadViper(v, cfgFile), f, missing)
        notFound == r.err # NoError /\ r.err.kind = "ConfigFileNotFoundError"
        out == IF r.err = NoError THEN ConfigFileUsed(r.v) ELSE "Config file not found"
        u == Unmarshal(r.v, e)
        ve == Validate(u.cfg, e)
    IN  IF notFound /\ NotFoundFatal(cfgFile)
        THEN [cfg |-> Nil, stdout |-> "", v |-> r.v,
              err |-> [kind |-> "config file specified but not found"]]
        ELSE IF r.err # NoError /\ ~notFound
        THEN [cfg |-> Nil, stdout |-> "", v |-> r.v,
              err |-> [kind |-> "failed to read config file", cause |-> r.err]]
        ELSE IF u.err # NoError
        THEN [cfg |-> Nil, stdout |-> out, v |-> r.v,
              err |-> [kind |-> "failed to unmarshal config", cause |-> u.err]]
        ELSE IF ve # NoError
        THEN [cfg |-> Nil, stdout |-> out, v |-> r.v,
              err |-> [kind |-> "invalid configuration", cause |-> ve]]
        ELSE [cfg |-> ValidateReceiver(u.cfg, e), stdout |-> out, v |-> r.v,
              err |-> NoError]

\* what a LoadConfig call hands its caller: the two results and the output
Outcome(r) == [cfg |-> r.cfg, stdout |-> r.stdout, err |-> r.err]

-----------------------------------------------------------------------------
(* cmd/code-decoder: the command-line process *)

\* faulty variant: the version flag honoured only as the sole argument
MainVersionAlone(a) == a.version /\ a.sub = "" /\ a.config = "" /\ a.provider = ""

\* main(): the scan of os.Args[1:] for -V / --version
MainVersion(a) == a.version

\* the subcommands that declare a --provider flag
ProviderCommands == {"generate", "test-llm"}

\* the subcommands that declare --dir, --repo and --save-analysis
SourceCommands == {"analyze", "generate"}

\* cobra's ValidateRequiredFlags: no flag of any command is marked required
\* (MarkFlagRequired("save-analysis") is commented out)
ValidateRequiredFlags(a) == TRUE

\* cobra's ValidateFlagGroups: MarkFlagsMutuallyExclusive("dir", "repo")
ValidateFlagGroups(a) == ~(a.sub \in SourceCommands /\ a.dir /\ a.repo)

\* rootCmd.Execute() up to the OnInitialize callbacks: flag parsing and
\* dispatch.  "error" for a flag the command does not declare, "help" for
\* the root command (not runnable), "run" otherwise.
Dispatch(a) ==
    IF a.provider # "" /\ a.sub \notin ProviderCommands THEN "error"
    ELSE IF (a.dir \/ a.repo \/ a.save) /\ a.sub \notin SourceCommands THEN "error"
    ELSE IF a.sub = "" THEN "help"
    ELSE "run"

\* faulty variant: initConfig without its final exit
MustExitNever(configLoaded, cfgFile) == FALSE

\* the final check of initConfig: no file loaded and no --config given
MustExit(configLoaded, cfgFile) == ~configLoaded /\ cfgFile = ""

\* the viper settings initConfig makes before it reads the file
InitViper(cfgFile) ==
    IF cfgFile # "" THEN [NewViper EXCEPT !.configFile = cfgFile]
    ELSE [NewViper EXCEPT !.configPaths = <<HomeFile, CwdFile>>]

\* func initConfig(): the global viper afterwards, the lines written to
\* standard error and the exit status (-1 when the function returns)
initConfig(cfgFile, f, home, missing) ==
    LET r == ReadInConfig(InitViper(cfgFile), f, missing)
        configLoaded == r.err = NoError
        notFound == r.err # NoError /\ r.err.kind = "ConfigFileNotFoundError"
        w == [r.v EXCEPT !.automaticEnv = TRUE]
        first == IF configLoaded THEN <<"Using config file">>
                 ELSE IF ~notFound THEN <<"Error reading config file">>
                 ELSE <<>>
    IN  IF cfgFile # "" /\ ~configLoaded
        THEN [v |-> r.v, stderr |-> <<"Error reading specified config file">>,
              exit |-> 1]
        ELSE IF HomeLookupFails(cfgFile, home)
        THEN [v |-> NewViper, stderr |-> <<"Error: home directory">>, exit |-> 1]
        ELSE IF MustExit(configLoaded, cfgFile)
        THEN [v |-> w,
              stderr |-> first \o <<"Error: Configuration file not found.">>,
              exit |-> 1]
        ELSE [v |-> w, stderr |-> first, exit |-> 0 - 1]

\* the Run function of a subcommand: the exit status it ends the process
\* with.  test-llm reads cfg.LLM.Provider; a nil cfg is a nil pointer
\* dereference, which ends a Go program with status 2.
RunHandler(sub, c) ==
    IF sub = "test-llm" /\ c = Nil THEN 2 ELSE 0

-----------------------------------------------------------------------------
(* Inputs *)

\* the values the environment may give the variable of a leaf key
EnvValues(k) ==
    CASE k = <<"llm", "provider">>        -> {"", "anthropic", "bogus"}
      [] k = <<"llm", "api_key">>         -> {"", "key-from-env"}
      [] k = <<"llm", "model">>           -> {"model-from-env"}
      [] k = <<"llm", "endpoint">>        -> {"http://localhost:1234"}
      [] k = <<"defaults", "output_dir">> -> {"./out-from-env"}
      [] k = <<"defaults", "language">>   -> {"French"}
      [] k = <<"defaults", "audience">>   -> {"contributor", "expert"}
      [] k = <<"defaults", "include">>    -> {"*.go,*.md"}
      [] k = <<"defaults", "exclude">>    -> {"vendor/*"}
      [] k = <<"defaults", "max_size">>   -> {"7", "-3", "abc"}
      [] k = <<"github", "token">>        -> {"token-from-env"}

\* the variable TestConfig_Validate sets and unsets
FallbackChoices == { <<"CODEDECODER_LLM_APIKEY", x>> : x \in {"", "env-test-key"} }

\* variables named after a provider, which Validate does not read
ProviderKeyChoices ==
    { <<"CODEDECODER_OPENAI_API_KEY", "sk-openai">>,
      <<"CODEDECODER_ANTHROPIC_API_KEY", "sk-anthropic">> }

\* name/value pairs a test of LoadConfig may set
LoadEnvChoices ==
    UNION { { <<EnvKey(EnvPrefix, TRUE, k), x>> : x \in EnvValues(k) } : k \in LeafKeys }
    \cup FallbackChoices

\* the variables the tests set with os.Setenv and unset again
SequenceEnvChoices ==
    { <<"CODEDECODER_LLM_PROVIDER", "anthropic">>,
      <<"CODEDECODER_LLM_APIKEY", "env-test-key">> }

\* name/value pairs set around the command-line process
CliEnvChoices ==
    { <<EnvKey(EnvPrefix, TRUE, <<"llm", "provider">>), "anthropic">>,
      <<EnvKey("", FALSE, <<"llm", "provider">>), "lmstudio">> }

\* the environments with at most n of the given pairs set
RECURSIVE Envs(_, _)
Envs(choices, n) ==
    IF n = 0 THEN { <<>> }
    ELSE LET less == Envs(choices, n - 1)
         IN  less \cup { (c[1] :> c[2]) @@ e :
                           <<e, c>> \in { x \in less \X choices : x[2][1] \notin DOMAIN x[1] } }

\* the Config literals of TestConfig_Validate, and their neighbours
ValidateInputs ==
    { Config(p, k, "", ep, "", "", a, <<>>, <<>>, 0, "") :
        p \in {"", "openai", "anthropic", "ollama", "lmstudio", "bogus"},
        k \in {"", "test-key"},
        ep \in {"", "http://localhost:11434"},
        a \in {"", "beginner", "developer", "contributor", "invalid-audience"} }

\* command lines: --config, the subcommand, --provider, -V/--version, and
\* for analyze its --dir, --repo and --save-analysis
Args ==
    { a \in [config : {"", OtherFile}, sub : {"", "analyze", "generate", "test-llm"},
              provider : {"", "anthropic"}, version : BOOLEAN,
              dir : BOOLEAN, repo : BOOLEAN, save : BOOLEAN] :
        (a.dir \/ a.repo \/ a.save)
          => (a.sub = "analyze" /\ a.provider = "" /\ ~a.version) }

NoArgs == [config |-> "", sub |-> "", provider |-> "", version |-> FALSE,
           dir |-> FALSE, repo |-> FALSE, save |-> FALSE]

NoCall == [called |-> FALSE]

NoFiles == [l \in Locations |-> Absent]

-----------------------------------------------------------------------------
(* The programs: the two test functions of internal/config and the CLI *)

Idle ==
    /\ ret = NoCall /\ verr = NoCall /\ cfg = Nil /\ gviper = NewViper
    /\ inst = NewViper /\ prev = NoCall
    /\ ran = "" /\ exitCode = 0 - 1 /\ stderr = <<>>

InitTestLoadConfig ==
    /\ pc = "TestLoadConfig"
    /\ fs \in [Locations -> FileStates]
    /\ homeOK \in BOOLEAN
    /\ env \in Envs(LoadEnvChoices, MaxEnvSet)
    /\ args = NoArgs /\ vcfg = ZeroConfig
    /\ Idle

\* TestLoadConfig as a whole: calls of LoadConfig one after another, with
\* os.Setenv and os.Unsetenv between them
InitTestSequence ==
    /\ pc = "TestLoadConfig/subtests"
    /\ fs \in [Locations -> FileStates]
    /\ homeOK \in BOOLEAN
    /\ env \in Envs(SequenceEnvChoices, MaxEnvSet)
    /\ args = NoArgs /\ vcfg = ZeroConfig
    /\ Idle

InitTestValidate ==
    /\ pc = "TestConfig_Validate"
    /\ fs = NoFiles /\ homeOK = TRUE
    /\ env \in Envs(LoadEnvChoices \cup ProviderKeyChoices, MaxEnvSet)
    /\ args = NoArgs
    /\ vcfg \in ValidateInputs
    /\ Idle

InitMain ==
    /\ pc = "main"
    /\ fs \in [Locations -> FileStates]
    /\ homeOK \in BOOLEAN
    /\ env \in Envs(CliEnvChoices, MaxEnvSet)
    /\ args \in Args
    /\ vcfg = ZeroConfig
    /\ Idle

Init == InitTestLoadConfig \/ InitTestSequence \/ InitTestValidate \/ InitMain

\* a test calls config.LoadConfig(path)
CallLoadConfig ==
    /\ pc = "TestLoadConfig"
    /\ \E path \in {"", OtherFile}, missing \in MissingKinds :
         LET r == LoadConfig(ViperNew(inst), path, fs, homeOK, env, missing)
         IN  /\ ret' = [called |-> TRUE, path |-> path] @@ Outcome(r)
             /\ inst' = r.v
    /\ UNCHANGED <<pc, fs, homeOK, env, args, vcfg, verr, cfg, gviper, prev, ran, exitCode, stderr>>

\* the call held in ret, as the next step of the test leaves it behind
Snapshot ==
    IF ret.called
    THEN [called |-> TRUE, path |-> ret.path, env |-> env, returned |-> Outcome(ret)]
    ELSE prev

\* a later subtest calls config.LoadConfig(path)
CallLoadConfigAgain ==
    /\ pc = "TestLoadConfig/subtests"
    /\ \E path \in {"", OtherFile}, missing \in MissingKinds :
         LET r == LoadConfig(ViperNew(inst), path, fs, homeOK, env, missing)
         IN  /\ ret' = [called |-> TRUE, path |-> path] @@ Outcome(r)
             /\ inst' = r.v
    /\ prev' = Snapshot
    /\ UNCHANGED <<pc, fs, homeOK, env, args, vcfg, verr, cfg, gviper, ran, exitCode, stderr>>

\* a subtest begins with os.Setenv(name, value); the results of the
\* subtest before are out of scope
Setenv ==
    /\ pc = "TestLoadConfig/subtests"
    /\ Cardinality(DOMAIN env) < MaxEnvSet
    /\ \E c \in SequenceEnvChoices :
         /\ c[1] \notin DOMAIN env
         /\ env' = (c[1] :> c[2]) @@ env
    /\ ret' = NoCall /\ prev' = Snapshot
    /\ UNCHANGED <<pc, fs, homeOK, args, vcfg, verr, cfg, gviper, inst, ran, exitCode, stderr>>

\* a subtest ends with its deferred os.Unsetenv(name)
Unsetenv ==
    /\ pc = "TestLoadConfig/subtests"
    /\ \E name \in DOMAIN env :
         env' = [n \in DOMAIN env \ {name} |-> env[n]]
    /\ ret' = NoCall /\ prev' = Snapshot
    /\ UNCHANGED <<pc, fs, homeOK, args, vcfg, verr, cfg, gviper, inst, ran, exitCode, stderr>>

\* a test calls cfg.Validate() on its literal
CallValidate ==
    /\ pc = "TestConfig_Validate"
    /\ verr' = [called |-> TRUE, before |-> vcfg, err |-> Validate(vcfg, env)]
    /\ vcfg' = ValidateReceiver(vcfg, env)
    /\ UNCHANGED <<pc, fs, homeOK, env, args, ret, cfg, gviper, inst, prev, ran, exitCode, stderr>>

\* main(): the version check, then cmd.Execute()
Main ==
    /\ pc = "main"
    /\ IF MainVersion(args)
       THEN pc' = "exit" /\ exitCode' = 0
       ELSE pc' = "Execute" /\ UNCHANGED exitCode
    /\ UNCHANGED <<fs, homeOK, env, args, ret, vcfg, verr, cfg, gviper, inst, prev, ran, stderr>>

\* rootCmd.Execute(): parse the flags and find the command
Execute ==
    /\ pc = "Execute"
    /\ CASE Dispatch(args) = "error" ->
              pc' = "exit" /\ exitCode' = 1 /\ stderr' = stderr \o <<"Error: unknown flag">>
         [] Dispatch(args) = "help" ->
              pc' = "exit" /\ exitCode' = 0 /\ UNCHANGED stderr
         [] OTHER ->
              pc' = "initConfig" /\ UNCHANGED <<exitCode, stderr>>
    /\ UNCHANGED <<fs, homeOK, env, args, ret, vcfg, verr, cfg, gviper, inst, prev, ran>>

\* cobra.OnInitialize(initConfig)
InitConfig ==
    /\ pc = "initConfig"
    /\ \E missing \in MissingKinds :
         LET r == initConfig(args.config, fs, homeOK, missing)
         IN  /\ gviper' = r.v
             /\ stderr' = stderr \o r.stderr
             /\ exitCode' = r.exit
             /\ pc' = IF r.exit = 0 - 1 THEN "Run" ELSE "exit"
    /\ UNCHANGED <<fs, homeOK, env, args, ret, vcfg, verr, cfg, inst, prev, ran>>

\* the rest of cobra's execute: the flag checks, then the Run function of
\* the subcommand
Run ==
    /\ pc = "Run"
    /\ IF ValidateRequiredFlags(args) /\ ValidateFlagGroups(args)
       THEN /\ ran' = args.sub
            /\ exitCode' = RunHandler(args.sub, cfg)
            /\ UNCHANGED stderr
       ELSE /\ exitCode' = 1
            /\ stderr' = stderr \o <<"Error: flags in a group are set together">>
            /\ UNCHANGED ran
    /\ pc' = "exit"
    /\ UNCHANGED <<fs, homeOK, env, args, ret, vcfg, verr, cfg, gviper, inst, prev>>

Next ==
    \/ CallLoadConfig \/ CallLoadConfigAgain \/ Setenv \/ Unsetenv
    \/ CallValidate \/ Main \/ Execute \/ InitConfig \/ Run

Spec == Init /\ [][Next]_vars

-----------------------------------------------------------------------------
(* Properties *)

\* the command-line process has been through initConfig
InitConfigRan == pc \in {"Run", "exit"} /\ ~args.version /\ Dispatch(args) = "run"

\* a LoadConfig call with an empty path has returned, the home directory known
DefaultCall == ret.called /\ ret.path = "" /\ homeOK

\* the command-line process has been through initConfig without --config
DefaultStart == InitConfigRan /\ args.config = "" /\ homeOK

NoDefaultFile == fs[CwdFile] = Absent /\ fs[HomeFile] = Absent

\* the default-location files that exist are all malformed
DefaultMalformed ==
    /\ {fs[CwdFile], fs[HomeFile]} \subseteq {Absent, Malformed}
    /\ Malformed \in {fs[CwdFile], fs[HomeFile]}

\* the tree of the file the last LoadConfig call reported using
LoadedTree == fs[ret.stdout].tree

\* the variable the environment overlay derives for a leaf key
DerivedVariable(k) == EnvKey("CODEDECODER", TRUE, k)

\* the field value an environment string stands for
FromEnv(k, x) == Decode(k, [src |-> "env", val |-> x])

\* C1: a non-empty explicit path whose file is missing, unreadable or
\* malformed is fatal: LoadConfig returns an error and no Config and uses no
\* default-location file; the CLI exits with code 1 before any handler and
\* loads no file.
C1_ExplicitFailureIsFatal ==
    /\ (ret.called /\ ret.path # "" /\ fs[ret.path].kind # "file")
         => (ret.err # NoError /\ ret.cfg = Nil /\ ret.stdout \notin Locations)
    /\ (InitConfigRan /\ args.config # "" /\ fs[args.config].kind # "file")
         => (pc = "exit" /\ exitCode = 1 /\ ran = "" /\ DOMAIN gviper.config = {})

C1_Witness ==
    /\ ret.called /\ ret.path = OtherFile /\ fs[OtherFile] = Malformed
    /\ fs[CwdFile].kind = "file" /\ fs[HomeFile].kind = "file"
    /\ ret.cfg = Nil

\* C2: with an empty path and no default-location file, LoadConfig goes on
\* with an empty tree: it reports the file as not found, returns the Config
\* of zero values, and fails only if Validate rejects that Config.
C2_NoDefaultFileNotFatal ==
    (DefaultCall /\ NoDefaultFile)
      => /\ ret.stdout = "Config file not found"
         /\ ret.err = NoError => ret.cfg = ZeroConfig
         /\ ret.err # NoError => (ret.err.kind = "invalid configuration" /\ ret.cfg = Nil)

C2_Witness ==
    /\ DefaultCall /\ NoDefaultFile
    /\ ret.cfg = ZeroConfig /\ ret.err = NoError

\* C3 as stated: at CLI start-up without --config and without a
\* default-location file the process is not terminated.
C3_NoDefaultFileNotFatalAtStartup ==
    (DefaultStart /\ NoDefaultFile) => exitCode # 1

\* C3 amended: at CLI start-up without --config and without a
\* default-location file, initConfig reports "Configuration file not found"
\* and exits with code 1; no handler runs.
C3_NoDefaultFileExitsAtStartup ==
    (DefaultStart /\ NoDefaultFile)
      => /\ pc = "exit" /\ exitCode = 1 /\ ran = ""
         /\ stderr = <<"Error: Configuration file not found.">>

C3_Witness == DefaultStart /\ NoDefaultFile /\ pc = "exit" /\ args.sub = "analyze"

\* C4 as stated: with an empty path, a default-location file that exists
\* but fails to parse is only a warning: LoadConfig returns no read error and
\* the CLI does not exit.
C4_MalformedDefaultIsWarning ==
    /\ (DefaultCall /\ DefaultMalformed)
         => (ret.err = NoError \/ ret.err.kind = "invalid configuration")
    /\ (DefaultStart /\ DefaultMalformed) => exitCode # 1

\* C4 amended: with an empty path, when the default-location files that
\* exist all fail to parse, resolution is aborted: LoadConfig returns a
\* "failed to read config file" error and no Config, and the CLI prints the
\* read error, then "Configuration file not found", and exits with code 1
\* before any handler.
C4_MalformedDefaultIsFatal ==
    /\ (DefaultCall /\ DefaultMalformed)
         => /\ ret.cfg = Nil
            /\ ret.err # NoError
            /\ ret.err.kind = "failed to read config file"
            /\ ret.err.cause.kind = "ConfigParseError"
    /\ (DefaultStart /\ DefaultMalformed)
         => /\ pc = "exit" /\ exitCode = 1 /\ ran = ""
            /\ stderr = <<"Error reading config file",
                          "Error: Configuration file not found.">>

C4_Witness ==
    /\ DefaultCall /\ fs[CwdFile] = Malformed /\ fs[HomeFile] = Absent
    /\ ret.cfg = Nil /\ ret.err.kind = "failed to read config file"

\* C5: with an empty path and both default files present, the values of the
\* current-directory file are the ones used.
C5_CurrentDirectoryFirst ==
    (DefaultCall /\ fs[CwdFile].kind = "file" /\ fs[HomeFile].kind = "file"
       /\ DOMAIN env = {} /\ ret.err = NoError)
      => /\ ret.stdout = CwdFile
         /\ \A k \in DOMAIN fs[CwdFile].tree : FieldOf(ret.cfg, k) = fs[CwdFile].tree[k]

\* C6: for a leaf key present in the loaded file whose derived variable is
\* set to a non-empty value, the returned Config holds the environment value.
C6_EnvOverridesFile ==
    (ret.called /\ ret.err = NoError /\ ret.stdout \in Locations)
      => \A k \in DOMAIN LoadedTree :
           (DerivedVariable(k) \in DOMAIN env /\ env[DerivedVariable(k)] # "")
             => FieldOf(ret.cfg, k) = FromEnv(k, env[DerivedVariable(k)])

C6_Witness ==
    /\ ret.called /\ ret.err = NoError /\ ret.stdout \in Locations
    /\ LoadedTree = TestConfigContent
    /\ "CODEDECODER_LLM_PROVIDER" \in DOMAIN env
    /\ env["CODEDECODER_LLM_PROVIDER"] = "anthropic"
    /\ ret.cfg.LLM.Provider = "anthropic"

\* C7 as stated: a variable set to the empty string counts as set, so the
\* field is empty even when the loaded file gives the key a non-empty value.
C7_EmptyEnvCountsAsSet ==
    (ret.called /\ ret.err = NoError /\ ret.stdout \in Locations)
      => \A k \in DOMAIN LoadedTree :
           (DerivedVariable(k) \in DOMAIN env /\ env[DerivedVariable(k)] = "")
             => FieldOf(ret.cfg, k) = ""

\* C7 amended: a variable set to the empty string counts as not set: the
\* field holds the value the loaded file gives the key.
C7_EmptyEnvCountsAsUnset ==
    (ret.called /\ ret.err = NoError /\ ret.stdout \in Locations)
      => \A k \in DOMAIN LoadedTree :
           (DerivedVariable(k) \in DOMAIN env /\ env[DerivedVariable(k)] = "")
             => FieldOf(ret.cfg, k) = LoadedTree[k]

C7_Witness ==
    /\ ret.called /\ ret.err = NoError /\ ret.stdout \in Locations
    /\ LoadedTree = TestConfigContent
    /\ "CODEDECODER_LLM_API_KEY" \in DOMAIN env
    /\ env["CODEDECODER_LLM_API_KEY"] = ""
    /\ ret.cfg.LLM.APIKey = "test-key-from-file"

\* C8: the environment overlay reaches every leaf key of the schema, also
\* keys absent from the loaded file and when no file was loaded: a set
\* derived variable gives the field its value.
C8_EnvOverlayEveryLeaf ==
    (ret.called /\ ret.err = NoError)
      => \A k \in LeafKeys :
           (DerivedVariable(k) \in DOMAIN env /\ env[DerivedVariable(k)] # "")
             => FieldOf(ret.cfg, k) = FromEnv(k, env[DerivedVariable(k)])

\* the provider the process works with: the Config's when there is one,
\* else the one the global viper resolves
EffectiveProvider ==
    LET x == Get(gviper, env, <<"llm", "provider">>)
    IN  IF cfg # Nil THEN cfg.LLM.Provider
        ELSE IF x # Nil THEN x.val ELSE ""

\* C9: a --provider flag value takes precedence over the environment and the
\* file in the resolved configuration.
C9_FlagOverridesAll ==
    (ran \in ProviderCommands /\ args.provider # "")
      => EffectiveProvider = args.provider

\* C10: for a cloud provider and a valid or empty audience, Validate fails
\* exactly when apiKey is empty and CODEDECODER_LLM_APIKEY is unset or empty,
\* and the error names the provider and that variable.
C10_CloudProviderNeedsKey ==
    (verr.called /\ vcfg.LLM.Provider \in {"openai", "anthropic"}
       /\ vcfg.Defaults.Audience \in {"", "beginner", "developer", "contributor"})
      => LET unset == \/ "CODEDECODER_LLM_APIKEY" \notin DOMAIN env
                      \/ env["CODEDECODER_LLM_APIKEY"] = ""
         IN  /\ verr.err # NoError <=> (vcfg.LLM.APIKey = "" /\ unset)
             /\ verr.err # NoError
                  => /\ verr.err.kind = "llm.api_key is required"
                     /\ verr.err.provider = vcfg.LLM.Provider
                     /\ verr.err.variable = "CODEDECODER_LLM_APIKEY"

C10_Witness ==
    /\ verr.called /\ vcfg.LLM.Provider = "openai" /\ vcfg.LLM.APIKey = ""
    /\ "CODEDECODER_LLM_APIKEY" \in DOMAIN env
    /\ env["CODEDECODER_LLM_APIKEY"] = "env-test-key"
    /\ verr.err = NoError

\* the three rules Validate enforces, read off a Config and an environment
CloudRuleHolds(c, e) ==
    c.LLM.Provider \in {"openai", "anthropic"}
      => \/ c.LLM.APIKey # ""
         \/ ("CODEDECODER_LLM_APIKEY" \in DOMAIN e /\ e["CODEDECODER_LLM_APIKEY"] # "")

LocalRuleHolds(c) ==
    c.LLM.Provider \in {"ollama", "lmstudio"} => c.LLM.Endpoint # ""

AudienceRuleHolds(c) ==
    c.Defaults.Audience \in {"", "beginner", "developer", "contributor"}

\* C11: for provider ollama or lmstudio and a valid or empty audience,
\* Validate fails exactly when the endpoint is empty, whatever apiKey and
\* CODEDECODER_LLM_APIKEY are, and the error names the provider.
C11_LocalProviderNeedsEndpoint ==
    (verr.called /\ vcfg.LLM.Provider \in {"ollama", "lmstudio"}
       /\ AudienceRuleHolds(vcfg))
      => /\ verr.err # NoError <=> vcfg.LLM.Endpoint = ""
         /\ verr.err # NoError
              => /\ verr.err.kind = "llm.endpoint is required"
                 /\ verr.err.provider = vcfg.LLM.Provider

C11_Witness ==
    /\ verr.called /\ vcfg.LLM.Provider = "lmstudio" /\ vcfg.LLM.Endpoint = ""
    /\ vcfg.LLM.APIKey = "test-key"
    /\ "CODEDECODER_LLM_APIKEY" \in DOMAIN env
    /\ env["CODEDECODER_LLM_APIKEY"] = "env-test-key"
    /\ verr.err # NoError /\ verr.err.provider = "lmstudio"

\* C12: for a Config that meets its provider's requirement, Validate
\* succeeds exactly when the audience is empty or one of beginner, developer,
\* contributor; otherwise the error is the invalid-audience one and lists
\* those three values.
C12_AudienceRecognised ==
    (verr.called /\ CloudRuleHolds(vcfg, env) /\ LocalRuleHolds(vcfg))
      => /\ verr.err = NoError <=> AudienceRuleHolds(vcfg)
         /\ verr.err # NoError
              => /\ verr.err.kind = "invalid default audience"
                 /\ verr.err.audience = vcfg.Defaults.Audience
                 /\ verr.err.allowed = {"beginner", "developer", "contributor"}

C12_Witness ==
    /\ verr.called /\ vcfg.LLM.Provider = "openai" /\ vcfg.LLM.APIKey = "test-key"
    /\ vcfg.Defaults.Audience = "invalid-audience"
    /\ verr.err # NoError /\ verr.err.kind = "invalid default audience"

\* C13: a provider that is non-empty and not one of openai, anthropic,
\* ollama, lmstudio makes Validate return an error, so LoadConfig returns no
\* Config holding one.
C13_UnknownProviderRejected ==
    /\ (verr.called /\ vcfg.LLM.Provider \notin {"", "openai", "anthropic", "ollama", "lmstudio"})
         => verr.err # NoError
    /\ (ret.called /\ ret.err = NoError)
         => ret.cfg.LLM.Provider \in {"", "openai", "anthropic", "ollama", "lmstudio"}

\* C14: every Config LoadConfig returns with a nil error meets the three
\* rules: a cloud provider has an apiKey or a non-empty
\* CODEDECODER_LLM_APIKEY, a local provider has an endpoint, and the audience
\* is empty or recognised.
C14_ReturnedConfigIsValid ==
    (ret.called /\ ret.err = NoError)
      => /\ CloudRuleHolds(ret.cfg, env)
         /\ LocalRuleHolds(ret.cfg)
         /\ AudienceRuleHolds(ret.cfg)

C14_Witness ==
    /\ ret.called /\ ret.err = NoError
    /\ ret.cfg.LLM.Provider = "anthropic" /\ ret.cfg.LLM.APIKey = ""
    /\ "CODEDECODER_LLM_APIKEY" \in DOMAIN env
    /\ env["CODEDECODER_LLM_APIKEY"] = "env-test-key"
    /\ ret.stdout \in Locations

\* the Config the settings of the command-line process decode to
ResolvedAtStartup == Unmarshal(gviper, env).cfg

\* C15: when the configuration resolved at CLI startup breaks a rule of
\* Validate, the process exits non-zero and no subcommand handler runs.
C15_InvalidConfigStopsStartup ==
    (InitConfigRan /\ pc = "exit" /\ DOMAIN gviper.config # {}
       /\ Validate(ResolvedAtStartup, env) # NoError)
      => (ran = "" /\ exitCode # 0)

\* C16: whenever a subcommand handler has run, the package variable cfg
\* holds the Config built by configuration resolution; it is not nil when
\* test-llm reads cfg.LLM.Provider.
C16_CfgBuiltBeforeHandler == ran # "" => cfg # Nil

\* the value the loaded file gives a leaf key, the zero value where it gives none
FileValue(k) == IF k \in DOMAIN LoadedTree THEN LoadedTree[k] ELSE ZeroOf(k)

\* C17: in a Config LoadConfig returns after loading a file, every leaf key
\* whose CODEDECODER_ variable is not set holds the file's value, so an
\* override changes its own key only and no override leaves the file's
\* values; for the test file with CODEDECODER_LLM_PROVIDER=anthropic the call
\* succeeds with provider anthropic and APIKey test-key-from-file.
C17_OverrideTouchesOneKey ==
    (ret.called /\ ret.stdout \in Locations)
      => /\ ret.err = NoError
              => \A k \in LeafKeys :
                   DerivedVariable(k) \notin DOMAIN env
                     => FieldOf(ret.cfg, k) = FileValue(k)
         /\ (LoadedTree = TestConfigContent
               /\ env = ("CODEDECODER_LLM_PROVIDER" :> "anthropic"))
              => /\ ret.err = NoError
                 /\ ret.cfg.LLM.Provider = "anthropic"
                 /\ ret.cfg.LLM.APIKey = "test-key-from-file"

C17_Witness ==
    /\ ret.called /\ ret.stdout \in Locations /\ ret.err = NoError
    /\ LoadedTree = TestConfigContent
    /\ env = ("CODEDECODER_LLM_PROVIDER" :> "anthropic")
    /\ ret.cfg.LLM.Provider = "anthropic"
    /\ ret.cfg.LLM.Model = "gpt-4"

\* C18 as stated: the outcome of Validate is the one it has for the same
\* Config under an empty environment, whatever the environment holds.
C18_OutcomeIgnoresEnvironment ==
    verr.called => verr.err = Validate(vcfg, <<>>)

\* C18: the outcome of Validate depends on the Config and on whether
\* CODEDECODER_LLM_APIKEY is non-empty, and on nothing else: with the variable
\* unset or empty it is the outcome for the Config under an empty
\* environment, with it non-empty the outcome for the same Config holding
\* an apiKey.
C18_OutcomeDependsOnFallbackOnly ==
    verr.called
      => LET set == /\ "CODEDECODER_LLM_APIKEY" \in DOMAIN env
                    /\ env["CODEDECODER_LLM_APIKEY"] # ""
             keyed == [vcfg EXCEPT !.LLM.APIKey = "env-test-key"]
         IN  verr.err = Validate(IF set /\ vcfg.LLM.APIKey = "" THEN keyed ELSE vcfg, <<>>)

C18_Witness ==
    /\ verr.called /\ vcfg.LLM.Provider = "ollama" /\ vcfg.LLM.Endpoint = ""
    /\ "CODEDECODER_LLM_ENDPOINT" \in DOMAIN env
    /\ env["CODEDECODER_LLM_ENDPOINT"] # ""
    /\ verr.err # NoError

\* C19: Validate accepts a Config with an empty provider whatever its
\* apiKey and endpoint, given an empty or recognised audience; an empty
\* audience never gives the invalid-audience error; the Config of zero
\* values passes.
C19_EmptyProviderAccepted ==
    verr.called
      => /\ (vcfg.LLM.Provider = "" /\ AudienceRuleHolds(vcfg)) => verr.err = NoError
         /\ (vcfg.Defaults.Audience = "" /\ verr.err # NoError)
              => verr.err.kind # "invalid default audience"
         /\ vcfg = ZeroConfig => verr.err = NoError

C19_Witness ==
    /\ verr.called /\ vcfg.LLM.Provider = "" /\ vcfg.LLM.APIKey = ""
    /\ vcfg.LLM.Endpoint = "" /\ vcfg.Defaults.Audience = "developer"
    /\ verr.err = NoError

\* C20: in every Config LoadConfig returns with a nil error,
\* defaults.maxSize is not negative.
C20_MaxSizeNonNegative ==
    (ret.called /\ ret.err = NoError) => ret.cfg.Defaults.MaxSize >= 0

\* C22: Validate checks the provider rules before the audience rule and
\* returns on the first failure: a Config that breaks a provider rule and
\* the audience rule gets the provider's error, and the outcome is nil or
\* one error of one kind.
C22_ProviderRuleBeforeAudience ==
    verr.called
      => LET c == verr.before
         IN  /\ (~CloudRuleHolds(c, env) /\ ~AudienceRuleHolds(c))
                  => verr.err # NoError /\ verr.err.kind = "llm.api_key is required"
             /\ (~LocalRuleHolds(c) /\ ~AudienceRuleHolds(c))
                  => verr.err # NoError /\ verr.err.kind = "llm.endpoint is required"
             /\ verr.err # NoError
                  => verr.err.kind \in {"llm.api_key is required",
                                        "llm.endpoint is required",
                                        "invalid default audience"}

C22_Witness ==
    /\ verr.called /\ verr.before.LLM.Provider = "ollama"
    /\ verr.before.LLM.Endpoint = ""
    /\ verr.before.Defaults.Audience = "invalid-audience"
    /\ verr.err # NoError /\ verr.err.kind = "llm.endpoint is required"

\* C23: Validate leaves the Config it checks as it was, on success and on
\* error; a cloud-provider Config accepted through CODEDECODER_LLM_APIKEY
\* keeps its empty APIKey, in the caller's value and in what LoadConfig
\* returns.
C23_ValidateLeavesConfig ==
    /\ verr.called => vcfg = verr.before
    /\ (ret.called /\ ret.err = NoError /\ ret.stdout \in Locations
          /\ <<"llm", "api_key">> \notin DOMAIN LoadedTree)
         => ret.cfg.LLM.APIKey = ""

C23_Witness ==
    /\ verr.called /\ verr.before.LLM.Provider = "anthropic"
    /\ verr.before.LLM.APIKey = ""
    /\ "CODEDECODER_LLM_APIKEY" \in DOMAIN env
    /\ env["CODEDECODER_LLM_APIKEY"] = "env-test-key"
    /\ verr.err = NoError /\ vcfg.LLM.APIKey = ""

Returned == Outcome(ret)

\* what a first call of LoadConfig gives for a path, a home directory
\* lookup and an environment, over the file system as it is
Fresh(path, home, e) ==
    { Outcome(LoadConfig(NewViper, path, fs, home, e, m)) : m \in MissingKinds }

\* C25: a home directory that cannot be resolved is fatal on the branch
\* without an explicit path only.  LoadConfig("") fails with the home
\* directory error even when ./config.yaml exists; with an explicit path the
\* outcome is the one a resolvable home directory gives.  initConfig
\* likewise exits 1 without --config and loads the --config file with it.
C25_HomeFailureOnDefaultBranchOnly ==
    /\ (ret.called /\ ret.path = "" /\ ~homeOK)
         => /\ ret.cfg = Nil /\ ret.err # NoError
            /\ ret.err.kind = "failed to get user home directory"
    /\ (ret.called /\ ret.path # "" /\ ~homeOK)
         => /\ Returned \in Fresh(ret.path, TRUE, env)
            /\ ret.err # NoError => ret.err.kind # "failed to get user home directory"
    /\ (InitConfigRan /\ args.config = "" /\ ~homeOK)
         => (pc = "exit" /\ exitCode = 1 /\ ran = "" /\ DOMAIN gviper.config = {})
    /\ (InitConfigRan /\ args.config # "" /\ ~homeOK /\ fs[args.config].kind = "file")
         => /\ stderr # <<>> /\ Head(stderr) = "Using config file"
            /\ gviper.config = fs[args.config].tree

C25_Witness ==
    /\ ret.called /\ ret.path = OtherFile /\ ~homeOK
    /\ fs[OtherFile] = File(TestConfigContent)
    /\ ret.err = NoError /\ ret.cfg.LLM.Provider = "openai"

\* the variable names the naming rule gives the eleven leaf keys
ExpectedVariable ==
    ( <<"llm", "provider">>        :> "CODEDECODER_LLM_PROVIDER" @@
      <<"llm", "api_key">>         :> "CODEDECODER_LLM_API_KEY" @@
      <<"llm", "model">>           :> "CODEDECODER_LLM_MODEL" @@
      <<"llm", "endpoint">>        :> "CODEDECODER_LLM_ENDPOINT" @@
      <<"defaults", "output_dir">> :> "CODEDECODER_DEFAULTS_OUTPUT_DIR" @@
      <<"defaults", "language">>   :> "CODEDECODER_DEFAULTS_LANGUAGE" @@
      <<"defaults", "audience">>   :> "CODEDECODER_DEFAULTS_AUDIENCE" @@
      <<"defaults", "include">>    :> "CODEDECODER_DEFAULTS_INCLUDE" @@
      <<"defaults", "exclude">>    :> "CODEDECODER_DEFAULTS_EXCLUDE" @@
      <<"defaults", "max_size">>   :> "CODEDECODER_DEFAULTS_MAX_SIZE" @@
      <<"github", "token">>        :> "CODEDECODER_GITHUB_TOKEN" )

\* the variable the environment overlay looks up for each leaf key
DerivedVariables == [k \in LeafKeys |-> EnvKey(EnvPrefix, TRUE, k)]

\* C26: the variable of a leaf key is CODEDECODER_ and the key path in upper
\* case with "_" for ".", distinct keys have distinct variables, and it is
\* the variable of that name whose value LoadConfig puts in the key's field.
C26_VariableNames ==
    /\ DerivedVariables = ExpectedVariable
    /\ Cardinality({ DerivedVariables[k] : k \in LeafKeys }) = Cardinality(LeafKeys)
    /\ (ret.called /\ ret.err = NoError /\ ret.stdout \in Locations)
         => \A k \in DOMAIN LoadedTree :
              (ExpectedVariable[k] \in DOMAIN env /\ env[ExpectedVariable[k]] # "")
                => FieldOf(ret.cfg, k) = FromEnv(k, env[ExpectedVariable[k]])

C26_Witness ==
    /\ ret.called /\ ret.err = NoError /\ ret.stdout \in Locations
    /\ <<"llm", "api_key">> \in DOMAIN LoadedTree
    /\ "CODEDECODER_LLM_API_KEY" \in DOMAIN env
    /\ env["CODEDECODER_LLM_API_KEY"] = "key-from-env"
    /\ ret.cfg.LLM.APIKey = "key-from-env"

\* C27: the api-key fallback is the one variable CODEDECODER_LLM_APIKEY
\* for openai and anthropic alike: a cloud-provider Config without apiKey
\* passes the credential rule exactly when that variable is non-empty, and
\* a variable named after the provider does not help.
C27_OneSharedFallback ==
    (verr.called /\ verr.before.LLM.Provider \in {"openai", "anthropic"}
       /\ verr.before.LLM.APIKey = "")
      => LET shared == /\ "CODEDECODER_LLM_APIKEY" \in DOMAIN env
                       /\ env["CODEDECODER_LLM_APIKEY"] # ""
             refused == /\ verr.err # NoError
                        /\ verr.err.kind = "llm.api_key is required"
         IN  /\ refused <=> ~shared
             /\ refused => verr.err.variable = "CODEDECODER_LLM_APIKEY"

C27_Witness ==
    /\ verr.called /\ verr.before.LLM.Provider = "anthropic"
    /\ verr.before.LLM.APIKey = ""
    /\ "CODEDECODER_ANTHROPIC_API_KEY" \in DOMAIN env
    /\ verr.err # NoError /\ verr.err.kind = "llm.api_key is required"

\* C28: with -V or --version among the arguments, whatever else is on the
\* command line, the process exits with status 0 straight from main: no
\* flag is parsed, initConfig does not run, nothing is written to standard
\* error and no handler runs, whatever the state of the configuration files.
C28_VersionExitsFirst ==
    (args.version /\ pc # "main")
      => /\ pc = "exit" /\ exitCode = 0
         /\ ran = "" /\ gviper = NewViper /\ stderr = <<>>

C28_Witness ==
    /\ args.version /\ pc = "exit" /\ exitCode = 0
    /\ args.sub = "analyze" /\ args.config = OtherFile
    /\ fs[OtherFile] = Unreadable /\ NoDefaultFile

\* C30: the result of a LoadConfig call is the one a first call gives for
\* its path, the file system and the environment of the moment; two calls
\* with the same path and environment give equal results, and an override
\* seen by one call is gone from a call made after the variable is unset.
\* (Where the library may report a missing explicit file in two ways, a
\* call is compared with the first calls of both kinds.)
C30_CallsAreIndependent ==
    /\ ret.called => Returned \in Fresh(ret.path, homeOK, env)
    /\ prev.called => prev.returned \in Fresh(prev.path, homeOK, prev.env)
    /\ (ret.called /\ prev.called /\ prev.path = ret.path /\ prev.env = env
          /\ Cardinality(Fresh(ret.path, homeOK, env)) = 1)
         => Returned = prev.returned

C30_Witness ==
    /\ prev.called /\ prev.path = OtherFile
    /\ prev.env = ("CODEDECODER_LLM_PROVIDER" :> "anthropic")
    /\ prev.returned.err = NoError /\ prev.returned.cfg.LLM.Provider = "anthropic"
    /\ ret.called /\ ret.path = OtherFile /\ DOMAIN env = {}
    /\ ret.err = NoError /\ ret.cfg.LLM.Provider = "openai"

\* the five ways LoadConfig fails
FailureKinds ==
    {"failed to get user home directory", "config file specified but not found",
     "failed to read config file", "failed to unmarshal config",
     "invalid configuration"}

\* C29: LoadConfig returns a Config or an error, never both and never
\* neither: beside each of its errors the Config is nil, and beside a nil
\* error the Config is there and has passed the rules of Validate.
C29_ConfigOrError ==
    ret.called
      => IF ret.err = NoError
         THEN /\ ret.cfg # Nil
              /\ CloudRuleHolds(ret.cfg, env) /\ LocalRuleHolds(ret.cfg)
              /\ AudienceRuleHolds(ret.cfg)
         ELSE ret.cfg = Nil /\ ret.err.kind \in FailureKinds

C29_Witness ==
    /\ ret.called /\ ret.stdout \in Locations
    /\ ret.err # NoError /\ ret.err.kind = "invalid configuration"
    /\ ret.cfg = Nil

\* C21: the analyze handler runs only for a command line with exactly one
\* of --dir and --repo and with --save-analysis.
C21_AnalyzeFlagsEnforced ==
    ran = "analyze" => (args.dir # args.repo /\ args.save)

====
